---- MODULE Spec2Model ----
(***************************************************************************)
(* A model of the CAS REST authentication handler (rest_handler.go) and    *)
(* of the service ticket validator (service_validate.go).                  *)
(*                                                                         *)
(* Strings that the code inspects character by character (the CAS1 body)   *)
(* are sequences of one-character strings.  URLs are records               *)
(*   [host, path, query]                                                   *)
(* where path is [rooted, segs] (the text is "/" if rooted, followed by    *)
(* the segments joined with "/") and query is the RawQuery as the          *)
(* sequence of its <<key, value>> pairs in textual order.  Path segments   *)
(* are plain names, ".", "..", "" (an empty segment, as in "/cas/"), or    *)
(* BadEscape, a segment holding an invalid percent escape.                 *)
(***************************************************************************)
EXTENDS Integers, Sequences, FiniteSets, TLC

\* ------------------------------------------------------------------ bounds

\* Number of inbound requests handled concurrently.
NumReq == 2

\* Longest username in a well-formed CAS1 "yes" body.
MaxUserLen == 2

\* ------------------------------------------------------- program constants

StatusOK == 200
StatusCreated == 201
StatusNotFound == 404
StatusUnauthorized == 401

\* The fixed prefix "yes\n" that validateTicketCas1 cuts off the body.
Cas1PrefixLen == 4

Challenge == "Basic realm=\"CAS Protected Area\""

\* ----------------------------------------------------------- url helpers

BadEscape == "%zz"

\* All query keys of the model, in the byte order url.Values.Encode sorts by.
KeyOrder == <<"lang", "service", "ticket", "zone">>

EmptyPath == [rooted |-> FALSE, segs |-> <<>>]

\* path.Clean on the segments of a path: "" and "." are dropped, ".." drops
\* the segment before it (at the root of a rooted path it is dropped itself,
\* at the start of a relative path it is kept).
RECURSIVE CleanSegs(_, _, _)
CleanSegs(segs, rooted, acc) ==
    IF segs = <<>> THEN acc
    ELSE LET s == Head(segs)
             rest == Tail(segs)
         IN  IF s = "" \/ s = "." THEN CleanSegs(rest, rooted, acc)
             ELSE IF s = ".."
                  THEN IF acc # <<>> /\ acc[Len(acc)] # ".."
                       THEN CleanSegs(rest, rooted, SubSeq(acc, 1, Len(acc) - 1))
                       ELSE IF rooted THEN CleanSegs(rest, rooted, acc)
                            ELSE CleanSegs(rest, rooted, Append(acc, s))
                  ELSE CleanSegs(rest, rooted, Append(acc, s))

\* path.Join(p, name): empty elements are ignored, the rest is joined with "/"
\* and cleaned.
PathJoin(p, name) ==
    IF p = EmptyPath THEN [rooted |-> FALSE, segs |-> <<name>>]
    ELSE [rooted |-> p.rooted, segs |-> CleanSegs(p.segs \o <<name>>, p.rooted, <<>>)]

\* url.resolvePath(base, ref): a rooted reference replaces the base path, a
\* relative one replaces what follows the base's last "/"; dot segments are
\* removed and the result is rooted.
ResolvePath(base, ref) ==
    LET full == IF ref.rooted THEN ref.segs
                ELSE (IF base.segs = <<>> THEN <<>>
                      ELSE SubSeq(base.segs, 1, Len(base.segs) - 1)) \o ref.segs
    IN  [rooted |-> TRUE, segs |-> CleanSegs(full, TRUE, <<>>)]

\* url.Values.Encode: the pairs sorted by key, the values of one key in the
\* order they were added.
RECURSIVE EncodeFrom(_, _)
EncodeFrom(q, i) ==
    IF i > Len(KeyOrder) THEN <<>>
    ELSE SelectSeq(q, LAMBDA kv : kv[1] = KeyOrder[i]) \o EncodeFrom(q, i + 1)

Encode(q) == EncodeFrom(q, 1)

\* url.Values.Add
QueryAdd(q, key, value) == Append(q, <<key, value>>)

\* (*url.URL).Query(): the pairs of the RawQuery; Encode groups them by key.
Query(u) == u.query

\* The values a query string carries under a key, in order.
QueryValues(q, key) ==
    LET sel == SelectSeq(q, LAMBDA kv : kv[1] = key)
    IN  [i \in 1..Len(sel) |-> sel[i][2]]

NoURL == [host |-> "", path |-> EmptyPath, query |-> <<>>]

\* A query value: plain text, or the text of a URL.
Text(t) == [text |-> t, url |-> NoURL]
URLText(u) == [text |-> "", url |-> u]

\* (*url.URL).String(): the text of the URL, kept as its parts in textual
\* order.  A relative path after a host gets its leading "/".
URLString(u) ==
    [host |-> u.host,
     path |-> IF u.host # "" /\ u.path.segs # <<>> /\ ~u.path.rooted
              THEN [rooted |-> TRUE, segs |-> u.path.segs]
              ELSE u.path,
     query |-> u.query]

\* ------------------------------------------------------------ value shapes

NoErr == [kind |-> "nil", detail |-> <<>>]
Err(kind, detail) == [kind |-> kind, detail |-> detail]

\* A *AuthenticationResponse: nil, or a user with its attributes.
NilResponse == [nil |-> TRUE, User |-> <<>>, Attributes |-> <<>>]
AuthenticationResponse(user, attrs) == [nil |-> FALSE, User |-> user, Attributes |-> attrs]

\* What ValidateTicket returns: (response, error).
Outcome(resp, err) == [resp |-> resp, err |-> err]
\* The error slot of a call that has not returned.
Pending == Err("pending", <<>>)
NoOutcome == [resp |-> NilResponse, err |-> Pending]
NotAuthenticated == Outcome(NilResponse, NoErr)

IsSuccess(o) == ~o.resp.nil /\ o.err = NoErr
IsErr(e) == e.kind \notin {"nil", "pending"}
IsError(o) == IsErr(o.err)

\* ------------------------------------------------------------ input sets

Host == "cas.example"

CasPlain == [host |-> Host, path |-> [rooted |-> TRUE, segs |-> <<"cas">>], query |-> <<>>]

CasURLs ==
    { CasPlain,
      [host |-> Host, path |-> [rooted |-> TRUE, segs |-> <<"cas", "">>], query |-> <<>>],
      [host |-> Host, path |-> EmptyPath, query |-> <<>>],
      [host |-> Host, path |-> [rooted |-> TRUE, segs |-> <<"sso", "..", "cas", ".">>],
       query |-> <<>>],
      [host |-> Host, path |-> [rooted |-> TRUE, segs |-> <<"cas">>],
       query |-> << <<"service", Text("x")>>, <<"ticket", Text("y")>> >>],
      [host |-> Host, path |-> [rooted |-> TRUE, segs |-> <<"cas", BadEscape>>],
       query |-> <<>>] }

AppPage == [host |-> "app.example", path |-> [rooted |-> TRUE, segs |-> <<"page">>],
            query |-> << <<"zone", Text("1")>>, <<"lang", Text("en")>> >>]

ServiceURLs ==
    { [host |-> "app.example", path |-> [rooted |-> TRUE, segs |-> <<>>], query |-> <<>>],
      AppPage,
      [host |-> "app.example", path |-> [rooted |-> TRUE, segs |-> <<"page">>],
       query |-> << <<"lang", Text("en")>>, <<"ticket", Text("old")>>,
                    <<"lang", Text("fr")>> >>] }

Tickets == {"ST-1", "ST-2"}

\* ---------------------------------------------------------- url builders

\* url.Parse of a reference path followed by (*URL).ResolveReference against
\* base: the reference carries no query and no host, so the result has the
\* base's host, the resolved path and an empty query.  A reference with an
\* invalid percent escape does not parse.
URLParse(base, ref) ==
    IF \E i \in 1..Len(ref.segs) : ref.segs[i] = BadEscape
    THEN [url |-> NoURL, err |-> Err("url", <<>>)]
    ELSE [url |-> [host |-> base.host, path |-> ResolvePath(base.path, ref), query |-> <<>>],
          err |-> NoErr]

\* sanitisedURLString(serviceURL): the canonical text of the service URL; its
\* query parameters are kept as they are.
sanitisedURLString(serviceURL) == URLString(serviceURL)

\* ------------------------------------------------------------- the state

VARIABLES
    casURL,      \* validator.casURL
    serviceURL,  \* the service URL of the RestClient that the handler uses
    pc,          \* where each request (or direct validator call) stands
    caller,      \* "ServeHTTP" for a request of the handler, "direct" for a call of ValidateTicket
    auth,        \* the Authorization header the request came with
    tgt,         \* what RequestGrantingTicket returned for the request: (ticket, error)
    st,          \* what RequestServiceTicket returned for the request: (ticket, error)
    call,        \* the arguments (serviceURL, ticket) of the running ValidateTicket
    sent,        \* the HTTP requests issued for the request, in order
    got,         \* the HTTP responses received for it, each with whether its body was closed
    parsed,      \* the bodies handed to ParseServiceResponse
    outcome,     \* what ValidateTicket returned
    status,      \* the status written to the client (0: none written)
    header,      \* the WWW-Authenticate header written to the client ("": none)
    logged,      \* the error written to the server's log
    ctx,         \* the AuthenticationResponse attached to the request
    calls,       \* how many times the wrapped handler was invoked with the request
    seen         \* the AuthenticationResponse the wrapped handler found on the request

vars == <<casURL, serviceURL, pc, caller, auth, tgt, st, call, sent, got, parsed, outcome,
          status, header, logged, ctx, calls, seen>>

Req == 1..NumReq

\* ServiceValidateUrl with the service URL appended unescaped: its query
\* parameters become parameters of the validation URL.
ServiceValidateUrl_Unescaped(sURL, ticket) ==
    LET p == URLParse(casURL, PathJoin(casURL.path, "serviceValidate"))
        q0 == Query(p.url)
        q1 == QueryAdd(q0, "service", URLText(URLString([sURL EXCEPT !.query = <<>>])))
        q2 == QueryAdd(q1 \o sURL.query, "ticket", Text(ticket))
    IN  IF p.err # NoErr THEN [str |-> NoURL, err |-> p.err]
        ELSE [str |-> URLString([p.url EXCEPT !.query = Encode(q2)]), err |-> NoErr]

\* ServiceValidateUrl creates the service validation url for the cas >= 2
\* protocol.
ServiceValidateUrl(sURL, ticket) ==
    LET p == URLParse(casURL, PathJoin(casURL.path, "serviceValidate"))
        q0 == Query(p.url)
        q1 == QueryAdd(q0, "service", URLText(sanitisedURLString(sURL)))
        q2 == QueryAdd(q1, "ticket", Text(ticket))
    IN  IF p.err # NoErr THEN [str |-> NoURL, err |-> p.err]
        ELSE [str |-> URLString([p.url EXCEPT !.query = Encode(q2)]), err |-> NoErr]

\* ValidateUrl with the service URL cut down to its path: the query of the
\* service URL is lost on the CAS1 endpoint only.
ValidateUrl_BareService(sURL, ticket) ==
    LET p == URLParse(casURL, PathJoin(casURL.path, "validate"))
        q0 == Query(p.url)
        q1 == QueryAdd(q0, "service", URLText(URLString([sURL EXCEPT !.query = <<>>])))
        q2 == QueryAdd(q1, "ticket", Text(ticket))
    IN  IF p.err # NoErr THEN [str |-> NoURL, err |-> p.err]
        ELSE [str |-> URLString([p.url EXCEPT !.query = Encode(q2)]), err |-> NoErr]

\* ValidateUrl creates the validation url for the cas >= 1 protocol.
ValidateUrl(sURL, ticket) ==
    LET p == URLParse(casURL, PathJoin(casURL.path, "validate"))
        q0 == Query(p.url)
        q1 == QueryAdd(q0, "service", URLText(sanitisedURLString(sURL)))
        q2 == QueryAdd(q1, "ticket", Text(ticket))
    IN  IF p.err # NoErr THEN [str |-> NoURL, err |-> p.err]
        ELSE [str |-> URLString([p.url EXCEPT !.query = Encode(q2)]), err |-> NoErr]

\* casURLAfter for a builder that works on casURL itself: the path and the
\* query it sets are those of the validator from then on.
casURLAfter_Aliased(built) == IF built.err # NoErr THEN casURL ELSE built.str

\* The validator's casURL after a builder has run: the builder sets the path
\* and the query of the URL that casURL.Parse returned, a value of its own, so
\* casURL is as it was.
casURLAfter(built) == casURL

\* ------------------------------------------------ what the CAS server sends

Yes == <<"y", "e", "s", "\n">>
No == <<"n", "o", "\n", "\n">>

Users == UNION { [1..n -> {"a", "b"}] : n \in 1..MaxUserLen }

YesBodies == { Yes \o u \o <<"\n">> : u \in Users }

\* Bodies of neither form: "", "no\n", "yes\n", "yes\n\n", "yes\na", "error\n".
OtherBodies ==
    { <<>>,
      <<"n", "o", "\n">>,
      Yes,
      Yes \o <<"\n">>,
      Yes \o <<"a">>,
      <<"e", "r", "r", "o", "r", "\n">> }

Cas1Bodies == {No} \cup YesBodies \cup OtherBodies

\* An XML document, by its top-level element.
NoDoc == [root |-> "", user |-> <<>>, attrs |-> <<>>, code |-> <<>>]
SuccessDoc(user, attrs) ==
    [root |-> "authenticationSuccess", user |-> user, attrs |-> attrs, code |-> <<>>]
FailureDoc(code) ==
    [root |-> "authenticationFailure", user |-> <<>>, attrs |-> <<>>, code |-> code]

\* A response body: its text and, when the text is XML, the document.
Plain(text) == [text |-> text, xml |-> NoDoc]
Xml(text, doc) == [text |-> text, xml |-> doc]

Bob == <<"b", "o", "b">>

XmlBodies ==
    { Xml(<<"<", "s", ">">>,
          SuccessDoc(Bob, << <<"role", "admin">>, <<"zone", "eu">>, <<"role", "user">> >>)),
      Xml(<<"<", "f", ">">>, FailureDoc(<<"I", "N", "V">>)),
      Xml(<<"<", "x", ">">>, [NoDoc EXCEPT !.root = "other"]),
      Plain(<<"<", "s">>) }

\* A reply to an HTTP request: the transport failed, or a response arrived
\* whose body can be read (or fails while being read).
TransportFailure == [arrived |-> FALSE, status |-> 0, body |-> Plain(<<>>), readable |-> FALSE]
Reply(code, body) == [arrived |-> TRUE, status |-> code, body |-> body, readable |-> TRUE]
Unreadable(code) == [arrived |-> TRUE, status |-> code, body |-> Plain(<<>>), readable |-> FALSE]

Oops == <<"o", "o", "p", "s">>

Cas2Replies ==
    { TransportFailure, Unreadable(StatusOK), Unreadable(500),
      Reply(StatusNotFound, Plain(<<>>)), Reply(500, Plain(Oops)),
      Reply(StatusUnauthorized, Xml(<<"<", "s", ">">>, SuccessDoc(Bob, <<>>))) }
    \cup { Reply(StatusOK, b) : b \in XmlBodies }

\* What the CAS1 endpoint may answer: any of the bodies to a direct call of
\* the validator, a few of them to a request of the handler.
Cas1Replies(from) ==
    IF from = "ServeHTTP"
    THEN { TransportFailure, Reply(StatusNotFound, Plain(Oops)),
           Reply(StatusOK, Plain(No)), Reply(StatusOK, Plain(Yes \o <<"a", "\n">>)),
           Reply(StatusOK, Plain(Yes)) }
    ELSE { TransportFailure, Unreadable(StatusOK),
           Reply(StatusNotFound, Plain(<<>>)), Reply(500, Plain(No)),
           Reply(500, Plain(Yes \o <<"a", "\n">>)) }
         \cup { Reply(StatusOK, Plain(b)) : b \in Cas1Bodies }

\* Replies to the granting ticket request of request r: the Location header's
\* path.  The server issues each ticket once.
TgtReplies(r) ==
    { [arrived |-> FALSE, status |-> 0, location |-> <<>>],
      [arrived |-> TRUE, status |-> StatusCreated,
       location |-> <<"cas", "v1", "tickets", "TGT-" \o ToString(r)>>],
      [arrived |-> TRUE, status |-> StatusCreated, location |-> <<>>],
      [arrived |-> TRUE, status |-> StatusUnauthorized, location |-> <<>>] }

\* Replies to the service ticket request of request r: the body is the ticket.
StReplies(r) ==
    { [arrived |-> FALSE, status |-> 0, body |-> ""],
      [arrived |-> TRUE, status |-> 500, body |-> ""],
      [arrived |-> TRUE, status |-> StatusOK, body |-> "ST-" \o ToString(r)] }

\* The Authorization header of an inbound request.
AuthHeaders ==
    { [kind |-> "absent", username |-> "", password |-> ""],
      [kind |-> "malformed", username |-> "", password |-> ""],
      [kind |-> "basic", username |-> "alice", password |-> "secret"] }

NoAuth == [kind |-> "none", username |-> "", password |-> ""]

\* ------------------------------------------------------- the collaborators

\* (*http.Request).BasicAuth
BasicAuth(h) == [username |-> h.username, password |-> h.password, ok |-> h.kind = "basic"]

\* The attribute entries of a document folded into the attribute mapping:
\* repeated names append to the sequence of the name, in order.
FoldAttributes(attrs) ==
    [name \in { attrs[i][1] : i \in 1..Len(attrs) } |->
        LET sel == SelectSeq(attrs, LAMBDA a : a[1] = name)
        IN  [i \in 1..Len(sel) |-> sel[i][2]]]

\* ParseServiceResponse(body)
ParseServiceResponse(body) ==
    IF body.xml.root = "authenticationSuccess"
    THEN Outcome(AuthenticationResponse(body.xml.user, FoldAttributes(body.xml.attrs)), NoErr)
    ELSE IF body.xml.root = "authenticationFailure"
         THEN Outcome(NilResponse, Err("authenticationFailure", body.xml.code))
         ELSE Outcome(NilResponse, Err("parse", body.text))

\* The result of RestClient.RequestGrantingTicket for a reply: the ticket is
\* the last path segment of the Location of a 201.
GrantingTicketResult(reply) ==
    IF ~reply.arrived THEN [tgt |-> "", err |-> Err("transport", <<>>)]
    ELSE IF reply.status # StatusCreated THEN [tgt |-> "", err |-> Err("status", <<>>)]
    ELSE IF reply.location = <<>> THEN [tgt |-> "", err |-> Err("location", <<>>)]
    ELSE [tgt |-> reply.location[Len(reply.location)], err |-> NoErr]

\* The result of RestClient.RequestServiceTicket for a reply: the ticket is
\* the body of a 200.
ServiceTicketResult(reply) ==
    IF ~reply.arrived THEN [st |-> "", err |-> Err("transport", <<>>)]
    ELSE IF reply.status # StatusOK THEN [st |-> "", err |-> Err("status", <<>>)]
    ELSE [st |-> reply.body, err |-> NoErr]

\* The URL of the ticket resource: {casBase}/v1/tickets, or the granting
\* ticket below it.
TicketsUrl(segs) ==
    [host |-> casURL.host,
     path |-> [rooted |-> TRUE,
               segs |-> CleanSegs(casURL.path.segs \o <<"v1", "tickets">> \o segs, TRUE, <<>>)],
     query |-> <<>>]

Request(method, url, form) == [method |-> method, url |-> url, form |-> form]

Received(kind, reply, closed) ==
    [kind |-> kind, status |-> reply.status, body |-> reply.body,
     read |-> closed /\ reply.readable, closed |-> closed]

\* A client that sends every request twice.
clientDo_Twice(wire, req) == Append(Append(wire, req), req)

\* (*http.Client).Do: the request goes out on the wire.
clientDo(wire, req) == Append(wire, req)

NoCall == [serviceURL |-> NoURL, ticket |-> ""]
NoCtx == [set |-> FALSE, val |-> NilResponse]

\* setAuthenticationResponse(r, a): a is attached to the request r, and to
\* no other.
setAuthenticationResponse(c, r, a) == [c EXCEPT ![r] = [set |-> TRUE, val |-> a]]

\* getAuthenticationResponse(r): what is attached to r.
getAuthenticationResponse(c, r) == c[r]

\* ------------------------------------------------------------ the handler

\* ServeHTTPReturn without the return after the 401: the wrapped handler is
\* called all the same.
ServeHTTPReturn_NoReturn(r, success, err) ==
    IF err # NoErr
    THEN /\ logged' = [logged EXCEPT ![r] = err]
         /\ header' = [header EXCEPT ![r] = Challenge]
         /\ status' = [status EXCEPT ![r] = StatusUnauthorized]
         /\ pc' = [pc EXCEPT ![r] = "wrapped"]
         /\ UNCHANGED ctx
    ELSE /\ ctx' = setAuthenticationResponse(ctx, r, success)
         /\ pc' = [pc EXCEPT ![r] = "wrapped"]
         /\ UNCHANGED <<logged, header, status>>

\* ServeHTTPReturn without the attachment: the wrapped handler is called with
\* the request as it came.
ServeHTTPReturn_NoAttach(r, success, err) ==
    IF err # NoErr
    THEN /\ logged' = [logged EXCEPT ![r] = err]
         /\ header' = [header EXCEPT ![r] = Challenge]
         /\ status' = [status EXCEPT ![r] = StatusUnauthorized]
         /\ pc' = [pc EXCEPT ![r] = "done"]
         /\ UNCHANGED ctx
    ELSE /\ pc' = [pc EXCEPT ![r] = "wrapped"]
         /\ UNCHANGED <<ctx, logged, header, status>>

\* ServeHTTPReturn with the response kept in one place for the whole process
\* instead of on the request.
ServeHTTPReturn_ProcessWide(r, success, err) ==
    IF err # NoErr
    THEN /\ logged' = [logged EXCEPT ![r] = err]
         /\ header' = [header EXCEPT ![r] = Challenge]
         /\ status' = [status EXCEPT ![r] = StatusUnauthorized]
         /\ pc' = [pc EXCEPT ![r] = "done"]
         /\ UNCHANGED ctx
    ELSE /\ ctx' = [q \in DOMAIN ctx |-> [set |-> TRUE, val |-> success]]
         /\ pc' = [pc EXCEPT ![r] = "wrapped"]
         /\ UNCHANGED <<logged, header, status>>

\* ServeHTTP once authenticate has returned (success, err): a 401 with the
\* challenge on an error, else the response is attached to the request and
\* the wrapped handler is called with it.
ServeHTTPReturn(r, success, err) ==
    IF err # NoErr
    THEN /\ logged' = [logged EXCEPT ![r] = err]
         /\ header' = [header EXCEPT ![r] = Challenge]
         /\ status' = [status EXCEPT ![r] = StatusUnauthorized]
         /\ pc' = [pc EXCEPT ![r] = "done"]
         /\ UNCHANGED ctx
    ELSE /\ ctx' = setAuthenticationResponse(ctx, r, success)
         /\ pc' = [pc EXCEPT ![r] = "wrapped"]
         /\ UNCHANGED <<logged, header, status>>

\* ServeHTTP without the return after the first 401: authenticate is called
\* whatever BasicAuth said.
ServeHTTP_NoReturn(r) ==
    /\ pc[r] = "new"
    /\ \E h \in AuthHeaders :
         /\ auth' = [auth EXCEPT ![r] = h]
         /\ caller' = [caller EXCEPT ![r] = "ServeHTTP"]
         /\ pc' = [pc EXCEPT ![r] = "tgt"]
         /\ IF ~BasicAuth(h).ok
            THEN /\ header' = [header EXCEPT ![r] = Challenge]
                 /\ status' = [status EXCEPT ![r] = StatusUnauthorized]
            ELSE UNCHANGED <<header, status>>
    /\ UNCHANGED <<casURL, serviceURL, tgt, st, call, sent, got, parsed, outcome, logged,
                   ctx, calls, seen>>

\* ServeHTTP up to the call of authenticate: a request without usable Basic
\* Authentication credentials is answered 401 with the challenge.
ServeHTTP(r) ==
    /\ pc[r] = "new"
    /\ \E h \in AuthHeaders :
         /\ auth' = [auth EXCEPT ![r] = h]
         /\ caller' = [caller EXCEPT ![r] = "ServeHTTP"]
         /\ IF ~BasicAuth(h).ok
            THEN /\ header' = [header EXCEPT ![r] = Challenge]
                 /\ status' = [status EXCEPT ![r] = StatusUnauthorized]
                 /\ pc' = [pc EXCEPT ![r] = "done"]
            ELSE /\ pc' = [pc EXCEPT ![r] = "tgt"]
                 /\ UNCHANGED <<header, status>>
    /\ UNCHANGED <<casURL, serviceURL, tgt, st, call, sent, got, parsed, outcome, logged,
                   ctx, calls, seen>>

\* authenticate, first stage: the granting ticket is requested with the
\* credentials; an error ends authenticate.
RequestGrantingTicket(r) ==
    /\ pc[r] = "tgt"
    /\ \E reply \in TgtReplies(r) :
         LET res == GrantingTicketResult(reply)
             cred == BasicAuth(auth[r])
             form == << <<"username", Text(cred.username)>>,
                        <<"password", Text(cred.password)>> >>
         IN  /\ sent' = [sent EXCEPT ![r] = Append(@, Request("POST", TicketsUrl(<<>>), form))]
             /\ tgt' = [tgt EXCEPT ![r] = res]
             /\ IF res.err # NoErr
                THEN ServeHTTPReturn(r, NilResponse, res.err)
                ELSE /\ pc' = [pc EXCEPT ![r] = "st"]
                     /\ UNCHANGED <<logged, header, status, ctx>>
    /\ UNCHANGED <<casURL, serviceURL, caller, auth, st, call, got, parsed, outcome, calls,
                   seen>>

\* authenticate, second stage: the service ticket is requested with the
\* granting ticket; an error ends authenticate.
RequestServiceTicket(r) ==
    /\ pc[r] = "st"
    /\ \E reply \in StReplies(r) :
         LET res == ServiceTicketResult(reply)
             form == << <<"service", URLText(sanitisedURLString(serviceURL))>> >>
         IN  /\ sent' = [sent EXCEPT ![r] =
                           Append(@, Request("POST", TicketsUrl(<<tgt[r].tgt>>), form))]
             /\ st' = [st EXCEPT ![r] = res]
             /\ IF res.err # NoErr
                THEN ServeHTTPReturn(r, NilResponse, res.err)
                ELSE /\ pc' = [pc EXCEPT ![r] = "validate"]
                     /\ UNCHANGED <<logged, header, status, ctx>>
    /\ UNCHANGED <<casURL, serviceURL, caller, auth, tgt, call, got, parsed, outcome, calls,
                   seen>>

\* The wrapped handler, called with the request.
WrappedServeHTTP(r) ==
    /\ pc[r] = "wrapped"
    /\ calls' = [calls EXCEPT ![r] = @ + 1]
    /\ seen' = [seen EXCEPT ![r] = getAuthenticationResponse(ctx, r)]
    /\ pc' = [pc EXCEPT ![r] = "done"]
    /\ UNCHANGED <<casURL, serviceURL, caller, auth, tgt, st, call, sent, got, parsed,
                   outcome, status, header, logged, ctx>>

\* ---------------------------------------------------------- the validator

\* ValidateTicket returns o to its caller: to ServeHTTP through authenticate
\* and ValidateServiceTicket, or to a direct caller.
Return(r, from, o) ==
    /\ outcome' = [outcome EXCEPT ![r] = o]
    /\ IF from = "ServeHTTP"
       THEN ServeHTTPReturn(r, o.resp, o.err)
       ELSE /\ pc' = [pc EXCEPT ![r] = "returned"]
            /\ UNCHANGED <<logged, header, status, ctx>>

\* The slice body[4 : len(body)-1] is in range.
SliceInRange(body) == Cas1PrefixLen <= Len(body) - 1

\* Cas1Outcome with the denial reported as an error.
Cas1Outcome_DenialIsError(reply) ==
    IF ~reply.arrived THEN [panic |-> FALSE, o |-> Outcome(NilResponse, Err("transport", <<>>))]
    ELSE IF ~reply.readable THEN [panic |-> FALSE, o |-> Outcome(NilResponse, Err("read", <<>>))]
    ELSE IF reply.status # StatusOK
         THEN [panic |-> FALSE, o |-> Outcome(NilResponse, Err("status", reply.body.text))]
    ELSE IF reply.body.text = No
         THEN [panic |-> FALSE, o |-> Outcome(NilResponse, Err("denied", reply.body.text))]
    ELSE IF ~SliceInRange(reply.body.text) THEN [panic |-> TRUE, o |-> NoOutcome]
    ELSE [panic |-> FALSE,
          o |-> Outcome(AuthenticationResponse(
                            SubSeq(reply.body.text, Cas1PrefixLen + 1,
                                   Len(reply.body.text) - 1), <<>>), NoErr)]

\* Cas1Outcome with the slice body[4:]: the trailing newline stays in the user.
Cas1Outcome_KeepsNewline(reply) ==
    IF ~reply.arrived THEN [panic |-> FALSE, o |-> Outcome(NilResponse, Err("transport", <<>>))]
    ELSE IF ~reply.readable THEN [panic |-> FALSE, o |-> Outcome(NilResponse, Err("read", <<>>))]
    ELSE IF reply.status # StatusOK
         THEN [panic |-> FALSE, o |-> Outcome(NilResponse, Err("status", reply.body.text))]
    ELSE IF reply.body.text = No THEN [panic |-> FALSE, o |-> NotAuthenticated]
    ELSE IF ~SliceInRange(reply.body.text) THEN [panic |-> TRUE, o |-> NoOutcome]
    ELSE [panic |-> FALSE,
          o |-> Outcome(AuthenticationResponse(
                            SubSeq(reply.body.text, Cas1PrefixLen + 1,
                                   Len(reply.body.text)), <<>>), NoErr)]

\* validateTicketCas1 from the reply of the CAS1 endpoint on: the outcome,
\* or a run-time panic.
Cas1Outcome(reply) ==
    IF ~reply.arrived THEN [panic |-> FALSE, o |-> Outcome(NilResponse, Err("transport", <<>>))]
    ELSE IF ~reply.readable THEN [panic |-> FALSE, o |-> Outcome(NilResponse, Err("read", <<>>))]
    ELSE IF reply.status # StatusOK
         THEN [panic |-> FALSE, o |-> Outcome(NilResponse, Err("status", reply.body.text))]
    ELSE IF reply.body.text = No THEN [panic |-> FALSE, o |-> NotAuthenticated]
    ELSE IF ~SliceInRange(reply.body.text) THEN [panic |-> TRUE, o |-> NoOutcome]
    ELSE [panic |-> FALSE,
          o |-> Outcome(AuthenticationResponse(
                            SubSeq(reply.body.text, Cas1PrefixLen + 1,
                                   Len(reply.body.text) - 1), <<>>), NoErr)]

\* validateTicketCas1(serviceURL, ticket), called by ValidateTicket.
validateTicketCas1(r) ==
    /\ pc[r] = "cas1"
    /\ LET u == ValidateUrl(call[r].serviceURL, call[r].ticket)
       IN  /\ casURL' = casURLAfter(u)
           /\ IF u.err # NoErr
              THEN /\ Return(r, caller[r], Outcome(NilResponse, u.err))
                   /\ UNCHANGED <<sent, got>>
              ELSE /\ sent' = [sent EXCEPT ![r] = clientDo(@, Request("GET", u.str, <<>>))]
                   /\ \E reply \in Cas1Replies(caller[r]) :
                        LET res == Cas1Outcome(reply)
                        IN  /\ got' = IF reply.arrived
                                      THEN [got EXCEPT ![r] =
                                               Append(@, Received("cas1", reply, TRUE))]
                                      ELSE got
                            /\ IF res.panic
                               THEN /\ pc' = [pc EXCEPT ![r] = "panicked"]
                                    /\ UNCHANGED <<outcome, logged, header, status, ctx>>
                               ELSE Return(r, caller[r], res.o)
    /\ UNCHANGED <<serviceURL, caller, auth, tgt, st, call, parsed, calls, seen>>

\* The fallback on every status but 200.
FallsBack_NotOK(reply) == reply.status # StatusOK

\* ValidateTicket falls back to the CAS1 endpoint on a 404 of the CAS2 endpoint.
FallsBack(reply) == reply.status = StatusNotFound

\* ParsedOutcome with the parser's error dropped.
ParsedOutcome_DropsError(p) == Outcome(p.resp, NoErr)

\* What ValidateTicket returns for the parser's (success, err): (nil, err) on
\* an error, else (success, nil).
ParsedOutcome(p) == IF p.err # NoErr THEN Outcome(NilResponse, p.err) ELSE Outcome(p.resp, NoErr)

\* Cas2Outcome with the body parsed before the status is looked at.
Cas2Outcome_ParsesFirst(reply) ==
    IF ~reply.arrived
    THEN [fallback |-> FALSE, parse |-> FALSE,
          o |-> Outcome(NilResponse, Err("transport", <<>>))]
    ELSE IF FallsBack(reply)
    THEN [fallback |-> TRUE, parse |-> FALSE, o |-> NoOutcome]
    ELSE IF ~reply.readable
    THEN [fallback |-> FALSE, parse |-> FALSE, o |-> Outcome(NilResponse, Err("read", <<>>))]
    ELSE IF IsSuccess(ParseServiceResponse(reply.body))
    THEN [fallback |-> FALSE, parse |-> TRUE, o |-> ParsedOutcome(ParseServiceResponse(reply.body))]
    ELSE IF reply.status # StatusOK
    THEN [fallback |-> FALSE, parse |-> TRUE,
          o |-> Outcome(NilResponse, Err("status", reply.body.text))]
    ELSE [fallback |-> FALSE, parse |-> TRUE, o |-> ParsedOutcome(ParseServiceResponse(reply.body))]

\* ValidateTicket from the reply of the CAS2 endpoint on: whether it falls
\* back to the CAS1 endpoint, whether the body goes to the parser, and the
\* outcome when it does not fall back.
Cas2Outcome(reply) ==
    IF ~reply.arrived
    THEN [fallback |-> FALSE, parse |-> FALSE,
          o |-> Outcome(NilResponse, Err("transport", <<>>))]
    ELSE IF FallsBack(reply)
    THEN [fallback |-> TRUE, parse |-> FALSE, o |-> NoOutcome]
    ELSE IF ~reply.readable
    THEN [fallback |-> FALSE, parse |-> FALSE, o |-> Outcome(NilResponse, Err("read", <<>>))]
    ELSE IF reply.status # StatusOK
    THEN [fallback |-> FALSE, parse |-> FALSE,
          o |-> Outcome(NilResponse, Err("status", reply.body.text))]
    ELSE [fallback |-> FALSE, parse |-> TRUE, o |-> ParsedOutcome(ParseServiceResponse(reply.body))]

\* ValidateTicket(serviceURL, ticket), called by from.  The URL that
\* ServiceValidateUrl returns always parses, so http.NewRequest does not fail.
\* The body of a response is read and closed unless the status is 404.
ValidateTicket(r, from, sURL, ticket) ==
    /\ call' = [call EXCEPT ![r] = [serviceURL |-> sURL, ticket |-> ticket]]
    /\ LET u == ServiceValidateUrl(sURL, ticket)
       IN  /\ casURL' = casURLAfter(u)
           /\ IF u.err # NoErr
              THEN /\ Return(r, from, Outcome(NilResponse, u.err))
                   /\ UNCHANGED <<sent, got, parsed>>
              ELSE /\ sent' = [sent EXCEPT ![r] = clientDo(@, Request("GET", u.str, <<>>))]
                   /\ \E reply \in Cas2Replies :
                        LET res == Cas2Outcome(reply)
                        IN  /\ got' = IF reply.arrived
                                      THEN [got EXCEPT ![r] =
                                               Append(@, Received("cas2", reply, ~res.fallback))]
                                      ELSE got
                            /\ parsed' = IF res.parse
                                         THEN [parsed EXCEPT ![r] = Append(@, reply.body)]
                                         ELSE parsed
                            /\ IF res.fallback
                               THEN /\ pc' = [pc EXCEPT ![r] = "cas1"]
                                    /\ UNCHANGED <<outcome, logged, header, status, ctx>>
                               ELSE Return(r, from, res.o)

\* ValidateServiceTicket with the service ticket kept in one place for all
\* requests: the ticket of the first request is validated.
ValidateServiceTicket_SharedTicket(r) ==
    /\ pc[r] = "validate"
    /\ ValidateTicket(r, "ServeHTTP", serviceURL, st[1].st)
    /\ UNCHANGED <<serviceURL, caller, auth, tgt, st, calls, seen>>

\* authenticate, third stage: RestClient.ValidateServiceTicket validates the
\* service ticket for the client's service URL.
ValidateServiceTicket(r) ==
    /\ pc[r] = "validate"
    /\ ValidateTicket(r, "ServeHTTP", serviceURL, st[r].st)
    /\ UNCHANGED <<serviceURL, caller, auth, tgt, st, calls, seen>>

\* A caller other than the handler calls ValidateTicket.
CallValidateTicket(r) ==
    /\ pc[r] = "new"
    /\ \E sURL \in ServiceURLs, ticket \in Tickets :
         /\ caller' = [caller EXCEPT ![r] = "direct"]
         /\ ValidateTicket(r, "direct", sURL, ticket)
    /\ UNCHANGED <<serviceURL, auth, tgt, st, calls, seen>>

\* ------------------------------------------------------ the specifications

InitRequests ==
    /\ pc = [r \in Req |-> "new"]
    /\ caller = [r \in Req |-> ""]
    /\ auth = [r \in Req |-> NoAuth]
    /\ tgt = [r \in Req |-> [tgt |-> "", err |-> Pending]]
    /\ st = [r \in Req |-> [st |-> "", err |-> Pending]]
    /\ call = [r \in Req |-> NoCall]
    /\ sent = [r \in Req |-> <<>>]
    /\ got = [r \in Req |-> <<>>]
    /\ parsed = [r \in Req |-> <<>>]
    /\ outcome = [r \in Req |-> NoOutcome]
    /\ status = [r \in Req |-> 0]
    /\ header = [r \in Req |-> ""]
    /\ logged = [r \in Req |-> NoErr]
    /\ ctx = [r \in Req |-> NoCtx]
    /\ calls = [r \in Req |-> 0]
    /\ seen = [r \in Req |-> NoCtx]

\* The handler serving NumReq requests concurrently.
Init ==
    /\ casURL = CasPlain
    /\ serviceURL = AppPage
    /\ InitRequests

Next ==
    \E r \in Req :
        \/ ServeHTTP(r)
        \/ RequestGrantingTicket(r)
        \/ RequestServiceTicket(r)
        \/ ValidateServiceTicket(r)
        \/ validateTicketCas1(r)
        \/ WrappedServeHTTP(r)

Spec == Init /\ [][Next]_vars

\* The validator called directly, with any CAS URL, service URL and ticket.
InitValidator ==
    /\ casURL \in CasURLs
    /\ serviceURL = AppPage
    /\ InitRequests

NextValidator ==
    \/ CallValidateTicket(1)
    \/ validateTicketCas1(1)

SpecValidator == InitValidator /\ [][NextValidator]_vars

\* ------------------------------------------------------------ the claims

Handled(r) == caller[r] = "ServeHTTP"

Rejected(r) ==
    /\ status[r] = StatusUnauthorized
    /\ header[r] = Challenge
    /\ calls[r] = 0
    /\ pc[r] = "done"

\* The validation requests issued for r: the GETs.
ValidationGets(r) == SelectSeq(sent[r], LAMBDA q : q.method = "GET")

\* The last response received for r is a 200 of the CAS1 endpoint whose body
\* was read, and validateTicketCas1 has finished with it.
Cas1Answered(r) ==
    /\ pc[r] # "cas1"
    /\ got[r] # <<>>
    /\ LET last == got[r][Len(got[r])]
       IN  last.kind = "cas1" /\ last.status = StatusOK /\ last.read

Cas1Body(r) == got[r][Len(got[r])].body.text

\* C1: a request whose validation ended NotAuthenticated is answered 401 with
\* the challenge header, and the wrapped handler is never invoked for it.
C1_NotAuthenticatedRejected ==
    \A r \in Req : (Handled(r) /\ outcome[r] = NotAuthenticated) => Rejected(r)

StageFailed(r) == IsErr(tgt[r].err) \/ IsErr(st[r].err) \/ IsError(outcome[r])

\* C2: a request with credentials for which one of the three stages returned
\* an error is answered 401 with the challenge header; the wrapped handler is
\* never invoked for it and nothing is attached to it.
C2_StageErrorRejected ==
    \A r \in Req : (Handled(r) /\ StageFailed(r)) => (Rejected(r) /\ ~ctx[r].set)

C2_Witness ==
    /\ \E r \in Req : pc[r] = "done" /\ IsErr(tgt[r].err)
    /\ \E r \in Req : pc[r] = "done" /\ IsError(outcome[r])

\* C3: a request whose Basic Authentication credentials are absent or
\* malformed is answered 401 with the challenge header; the wrapped handler is
\* never invoked and no stage is started: no HTTP request is issued and no
\* stage has a result.
C3_NoCredentialsRejected ==
    \A r \in Req :
        (Handled(r) /\ ~BasicAuth(auth[r]).ok)
            => /\ Rejected(r)
               /\ sent[r] = <<>>
               /\ tgt[r].err = Pending /\ st[r].err = Pending /\ outcome[r] = NoOutcome

C3_Witness ==
    /\ \E r \in Req : Handled(r) /\ auth[r].kind = "malformed" /\ pc[r] = "done"
    /\ \E r \in Req : Handled(r) /\ auth[r].kind = "absent" /\ pc[r] = "done"

\* C4: when the three stages succeeded for a request, the response of its
\* validation is attached to it before the wrapped handler is invoked, the
\* wrapped handler is invoked once, and what it finds on the request is that
\* response; no 401 is written.
C4_SuccessAttachedThenInvoked ==
    \A r \in Req :
        (Handled(r) /\ IsSuccess(outcome[r]))
            => /\ ctx[r] = [set |-> TRUE, val |-> outcome[r].resp]
               /\ status[r] = 0 /\ header[r] = ""
               /\ \/ pc[r] = "wrapped" /\ calls[r] = 0
                  \/ /\ pc[r] = "done" /\ calls[r] = 1
                     /\ seen[r].set /\ seen[r].val.User = outcome[r].resp.User

C4_Witness ==
    \E r \in Req :
        /\ Handled(r) /\ pc[r] = "done" /\ calls[r] = 1
        /\ IsSuccess(outcome[r]) /\ seen[r].val.User = Bob

FellBack(r) == got[r] # <<>> /\ got[r][1].kind = "cas2" /\ got[r][1].status = StatusNotFound

AllButLast(seq) == SubSeq(seq, 1, Len(seq) - 1)

\* C5: after a 404 of the CAS2 endpoint the validator issues one more GET, to
\* the CAS1 endpoint: two validation requests in all, the second with the
\* query of the first (the same service and ticket values, those of the call)
\* and with its host and path but for the last segment, serviceValidate in
\* the first and validate in the second.
C5_FallbackIssuesOneCas1Request ==
    \A r \in Req :
        FellBack(r) =>
            LET g == ValidationGets(r)
            IN  /\ Len(g) = IF pc[r] = "cas1" THEN 1 ELSE 2
                /\ Len(g) = 2 =>
                     /\ g[2].url.query = g[1].url.query
                     /\ QueryValues(g[2].url.query, "service")
                            = <<URLText(URLString(call[r].serviceURL))>>
                     /\ QueryValues(g[2].url.query, "ticket") = <<Text(call[r].ticket)>>
                     /\ g[2].url.host = g[1].url.host
                     /\ g[1].url.path.segs # <<>> /\ g[2].url.path.segs # <<>>
                     /\ AllButLast(g[2].url.path.segs) = AllButLast(g[1].url.path.segs)
                     /\ g[1].url.path.segs[Len(g[1].url.path.segs)] = "serviceValidate"
                     /\ g[2].url.path.segs[Len(g[2].url.path.segs)] = "validate"

C5_Witness ==
    \E r \in Req :
        /\ FellBack(r) /\ pc[r] = "returned" /\ Len(ValidationGets(r)) = 2
        /\ call[r].serviceURL.query # <<>>
        /\ casURL.path.segs # <<"cas">>

WellFormedYes(b) ==
    /\ Len(b) > Cas1PrefixLen + 1
    /\ SubSeq(b, 1, Cas1PrefixLen) = Yes
    /\ b[Len(b)] = "\n"
    /\ \A i \in (Cas1PrefixLen + 1)..(Len(b) - 1) : b[i] # "\n"

\* C6: a 200 of the CAS1 endpoint whose body is neither "no\n\n" nor of the
\* form "yes\n<username>\n" ends the validation with an error.
C6_OtherBodyIsError ==
    \A r \in Req :
        (Cas1Answered(r) /\ Cas1Body(r) # No /\ ~WellFormedYes(Cas1Body(r)))
            => (pc[r] = "returned" /\ IsError(outcome[r]))

\* C7 as stated: over one ValidateTicket invocation the ticket is submitted
\* in at most one validation request.
C7_TicketInOneRequest ==
    \A r \in Req : Len(ValidationGets(r)) <= 1

LastSeg(req) == req.url.path.segs[Len(req.url.path.segs)]

\* C7, amended: over one ValidateTicket invocation the ticket is submitted at
\* most once to each validation endpoint and in at most two validation
\* requests: one to the CAS2 endpoint and, only after that one was answered
\* 404, one to the CAS1 endpoint.  Each request carries the ticket of the call.
C7_TicketOncePerEndpoint ==
    \A r \in Req :
        LET g == ValidationGets(r)
        IN  /\ Len(g) <= 2
            /\ Len(g) >= 1 => LastSeg(g[1]) = "serviceValidate"
            /\ Len(g) = 2 => (LastSeg(g[2]) = "validate" /\ FellBack(r))
            /\ \A i \in 1..Len(g) :
                 QueryValues(g[i].url.query, "ticket") = <<Text(call[r].ticket)>>
            /\ Handled(r) /\ Len(g) >= 1 => call[r].ticket = st[r].st

C7_Witness ==
    \E r \in Req : Handled(r) /\ pc[r] = "done" /\ Len(ValidationGets(r)) = 2

\* C8: a 200 of the CAS1 endpoint with the body "no\n\n" ends the validation
\* NotAuthenticated: no response and no error.
C8_DenialIsNotAuthenticated ==
    \A r \in Req :
        (Cas1Answered(r) /\ Cas1Body(r) = No)
            => /\ pc[r] = "returned"
               /\ outcome[r].resp.nil /\ outcome[r].err = NoErr
               /\ ~IsError(outcome[r]) /\ ~IsSuccess(outcome[r])

C8_Witness ==
    \E r \in Req : Cas1Answered(r) /\ Cas1Body(r) = No /\ outcome[r] = NotAuthenticated

\* C9: a 200 of the CAS1 endpoint with the body "yes\n<username>\n", the
\* username not empty, ends the validation with success; the user is the
\* username and there are no attributes.
C9_YesIsSuccess ==
    \A r \in Req : \A u \in Users :
        (Cas1Answered(r) /\ Cas1Body(r) = Yes \o u \o <<"\n">>)
            => /\ pc[r] = "returned"
               /\ IsSuccess(outcome[r])
               /\ outcome[r].resp.User = u
               /\ outcome[r].resp.Attributes = <<>>

C9_Witness ==
    \E r \in Req : \E u \in Users :
        /\ Len(u) = MaxUserLen
        /\ Cas1Answered(r) /\ Cas1Body(r) = Yes \o u \o <<"\n">>
        /\ outcome[r].resp.User = u

\* C10: for a service URL with query parameters, each validation URL built
\* has one service parameter, whose value is the service URL with those
\* parameters, one ticket parameter, whose value is the ticket, and no
\* parameter besides.
C10_ServiceQueryPreserved ==
    \A r \in Req : \A i \in 1..Len(ValidationGets(r)) :
        LET q == ValidationGets(r)[i].url.query
            sv == QueryValues(q, "service")
            tv == QueryValues(q, "ticket")
        IN  call[r].serviceURL.query # <<>> =>
                /\ Len(sv) = 1
                /\ sv[1].url.host = call[r].serviceURL.host
                /\ sv[1].url.path = call[r].serviceURL.path
                /\ sv[1].url.query = call[r].serviceURL.query
                /\ tv = <<Text(call[r].ticket)>>
                /\ \A j \in 1..Len(q) : q[j][1] \in {"service", "ticket"}

C10_Witness ==
    \E r \in Req :
        /\ Len(ValidationGets(r)) = 2
        /\ \E j \in 1..Len(call[r].serviceURL.query) : call[r].serviceURL.query[j][1] = "ticket"
        /\ casURL.query # <<>>

\* C11: the first validation request of a ValidateTicket invocation goes to
\* the CAS2 endpoint, and a request goes to the CAS1 endpoint only as the
\* second one, when the CAS2 request has been answered 404 and nothing has
\* been returned yet: after a transport error, a 200 or another status of the
\* CAS2 endpoint no further request is issued.
C11_Cas1OnlyAfterCas2NotFound ==
    [][\A r \in Req :
          Len(ValidationGets(r)') > Len(ValidationGets(r)) =>
              IF Len(ValidationGets(r)) = 0
              THEN /\ Len(ValidationGets(r)') = 1
                   /\ LastSeg(ValidationGets(r)'[1]) = "serviceValidate"
                   /\ got[r] = <<>>
              ELSE /\ Len(ValidationGets(r)) = 1 /\ Len(ValidationGets(r)') = 2
                   /\ LastSeg(ValidationGets(r)'[2]) = "validate"
                   /\ pc[r] = "cas1" /\ outcome[r] = NoOutcome
                   /\ Len(got[r]) = 1
                   /\ got[r][1].kind = "cas2" /\ got[r][1].status = StatusNotFound]_vars

C11_Witness ==
    /\ \E r \in Req : Len(got[r]) = 2 /\ got[r][2].kind = "cas1" /\ pc[r] = "done"
    /\ \E r \in Req : /\ pc[r] = "done" /\ Len(ValidationGets(r)) = 1
                      /\ Len(got[r]) = 1 /\ got[r][1].status = 500

\* C12: for a request with credentials the requests on the wire are, in
\* this order, one granting ticket request with the credentials of the
\* request, one service ticket request on the granting ticket that the first
\* returned, and the validation of the service ticket that the second
\* returned (one or two GETs); a stage has a result only when the stage
\* before it returned without error, and the tickets are those issued for
\* this request.
C12_StagesInOrder ==
    \A r \in Req :
        Handled(r) =>
            LET n == Len(sent[r])
                posts == SelectSeq(sent[r], LAMBDA q : q.method = "POST")
            IN  /\ Len(posts) <= 2 /\ Len(ValidationGets(r)) <= 2
                /\ sent[r] = posts \o ValidationGets(r)
                /\ (n >= 1) <=> (tgt[r].err # Pending)
                /\ (n >= 2) <=> (st[r].err # Pending)
                /\ n >= 1 => /\ sent[r][1].url = TicketsUrl(<<>>)
                             /\ sent[r][1].form = << <<"username", Text(auth[r].username)>>,
                                                     <<"password", Text(auth[r].password)>> >>
                             /\ BasicAuth(auth[r]).ok
                /\ n >= 2 => /\ tgt[r].err = NoErr
                             /\ tgt[r].tgt = "TGT-" \o ToString(r)
                             /\ sent[r][2].method = "POST"
                             /\ sent[r][2].url = TicketsUrl(<<tgt[r].tgt>>)
                /\ n >= 3 => /\ st[r].err = NoErr
                             /\ st[r].st = "ST-" \o ToString(r)
                             /\ call[r].ticket = st[r].st
                             /\ \A i \in 3..n :
                                  QueryValues(sent[r][i].url.query, "ticket")
                                      = <<Text(st[r].st)>>
                /\ outcome[r] # NoOutcome => (n >= 3 /\ st[r].err = NoErr)

C12_Witness ==
    \E r, q \in Req :
        /\ r # q
        /\ pc[r] = "done" /\ Len(sent[r]) >= 3 /\ IsSuccess(outcome[r])
        /\ pc[q] = "done" /\ Len(sent[q]) >= 3 /\ IsSuccess(outcome[q])

\* The validator call of r has ended: it is neither waiting to start nor
\* waiting for the CAS1 endpoint.
Ended(r) == caller[r] = "direct" /\ pc[r] # "new" /\ pc[r] # "cas1"

\* C13: a ValidateTicket invocation ends with one outcome after at most two
\* validation requests; a status other than 200 of the CAS1 endpoint,
\* a second 404 included, ends it with an error carrying the body text, and
\* no request follows.
C13_OneOutcomeWithinTwoRequests ==
    \A r \in Req :
        /\ Len(ValidationGets(r)) <= 2
        /\ Ended(r) =>
             /\ pc[r] = "returned"
             /\ outcome[r] # NoOutcome
             /\ \A i \in 1..Len(got[r]) :
                  (got[r][i].kind = "cas1" /\ got[r][i].read /\ got[r][i].status # StatusOK)
                      => /\ outcome[r] = Outcome(NilResponse, Err("status", got[r][i].body.text))
                         /\ i = Len(got[r]) /\ Len(ValidationGets(r)) = 2

\* C14: a response of the CAS2 endpoint with a status other than 200 and 404
\* ends ValidateTicket with an error and without an AuthenticationResponse;
\* the body is not handed to the parser and no further request is issued.
\* The detail of the error is the text of the body, when the body could be
\* read.
C14_OtherStatusIsError ==
    \A r \in Req :
        (/\ got[r] # <<>>
         /\ got[r][1].kind = "cas2"
         /\ got[r][1].status \notin {StatusOK, StatusNotFound})
            => /\ pc[r] = "returned"
               /\ IsError(outcome[r]) /\ outcome[r].resp = NilResponse
               /\ got[r][1].read => outcome[r].err = Err("status", got[r][1].body.text)
               /\ parsed[r] = <<>>
               /\ Len(got[r]) = 1 /\ Len(ValidationGets(r)) = 1

C14_Witness ==
    \E r \in Req :
        /\ pc[r] = "returned" /\ Len(got[r]) = 1
        /\ got[r][1].status = StatusUnauthorized
        /\ got[r][1].body.xml.root = "authenticationSuccess"
        /\ outcome[r].err.kind = "status"

\* ServeHTTP has finished with r, and r had no usable credentials, or one of
\* its stages returned an error, or its validation ended NotAuthenticated.
NotSuccessful(r) ==
    /\ Handled(r) /\ pc[r] = "done"
    /\ \/ ~BasicAuth(auth[r]).ok
       \/ StageFailed(r)
       \/ outcome[r] = NotAuthenticated

\* C15: the requests that ended without success, whatever the stage and the
\* detail of the failure, are all answered alike: the status and the headers
\* written for any two of them are the same.
C15_FailuresAnsweredAlike ==
    \A r1, r2 \in Req :
        (NotSuccessful(r1) /\ NotSuccessful(r2))
            => status[r1] = status[r2] /\ header[r1] = header[r2]

\* C16: what is attached to a request is the response of that request's own
\* validation, attached once that validation has returned, and the wrapped
\* handler called with the request finds exactly that; the steps of the other
\* requests change neither.
C16_OwnResponseObserved ==
    \A r \in Req :
        /\ ctx[r].set => (outcome[r] # NoOutcome /\ ctx[r].val = outcome[r].resp)
        /\ calls[r] > 0 => seen[r] = [set |-> TRUE, val |-> outcome[r].resp]

C16_Witness ==
    \E r1, r2 \in Req :
        /\ calls[r1] = 1 /\ seen[r1].val.User = Bob
        /\ pc[r2] = "wrapped" /\ IsSuccess(outcome[r2]) /\ outcome[r2].resp.User = <<"a">>
        /\ ctx[r2].val.User = <<"a">>

\* The first response received for r is a 200 of the CAS2 endpoint whose body
\* was read.
Cas2Answered(r) ==
    /\ got[r] # <<>>
    /\ got[r][1].kind = "cas2" /\ got[r][1].status = StatusOK /\ got[r][1].read

\* C17: after a 200 of the CAS2 endpoint ValidateTicket returns what the
\* parser made of the body, a success or an error and never NotAuthenticated:
\* an authenticationFailure document is an error carrying its code. An
\* invocation that ended NotAuthenticated was answered "no\n\n" by the CAS1
\* endpoint.
C17_Cas2OutcomeIsParsers ==
    \A r \in Req :
        /\ Cas2Answered(r) =>
             /\ parsed[r] = <<got[r][1].body>>
             /\ outcome[r] = ParseServiceResponse(got[r][1].body)
             /\ IsSuccess(outcome[r]) \/ IsError(outcome[r])
             /\ outcome[r] # NotAuthenticated
             /\ got[r][1].body.xml.root = "authenticationFailure" =>
                  outcome[r] = Outcome(NilResponse,
                                       Err("authenticationFailure", got[r][1].body.xml.code))
             /\ Len(got[r]) = 1
        /\ outcome[r] = NotAuthenticated => (Cas1Answered(r) /\ Cas1Body(r) = No)

C17_Witness ==
    \E r \in Req :
        /\ Cas2Answered(r) /\ pc[r] = "returned"
        /\ got[r][1].body.xml.root = "authenticationFailure"
        /\ outcome[r].err.kind = "authenticationFailure"

Returned(r) == outcome[r] # NoOutcome

\* C19: when ValidateTicket has returned, the body of every response it
\* received has been closed, the 404 of the CAS2 endpoint that led to the
\* fallback included.
C19_BodiesClosedOnReturn ==
    \A r \in Req :
        Returned(r) => \A i \in 1..Len(got[r]) : got[r][i].closed

\* C20: validateTicketCas1 returns with an outcome for every 200 body of the
\* CAS1 endpoint, whatever its length: the slice body[4 : len(body)-1] is
\* never evaluated out of range.
C20_Cas1SliceInRange ==
    \A r \in Req :
        /\ pc[r] # "panicked"
        /\ Cas1Answered(r) =>
             /\ outcome[r] # NoOutcome
             /\ Cas1Body(r) # No => SliceInRange(Cas1Body(r))

====
